---- MODULE Spec2Model ----
(***************************************************************************)
(* Model of the service worker of the YouTube downloader extension: the    *)
(* native-messaging channel, the pending-call table, the active-download   *)
(* table and the notifications sent to observers.                          *)
(*                                                                         *)
(* One action is one task of the JavaScript event loop: the synchronous    *)
(* body of a handler followed by the promise reactions (microtasks) it     *)
(* queues, which run before any other event is handled.  What a task did   *)
(* (settlements, notifications, results, writes) is kept until the loop    *)
(* is idle again; the next task starts from the idle loop.                 *)
(***************************************************************************)
EXTENDS Integers, Sequences, FiniteSets, TLC

\* ---- bounds of the model ----
MaxCalls == 2      \* correlation ids allocated in one run
MaxJobs == 2       \* download identifiers generated in one run
MaxPorts == 2      \* native ports successfully created in one run
MaxAdds == 52      \* calls of addToHistory in one run
MaxFaults == 1     \* calls of addToHistory in which a storage operation fails

\* ---- the length the download history is cut to ----
HistoryLimit == 50

\* ---- texts of the errors the code creates ----
DisconnectedError == "Native host disconnected"
ConnectError == "Failed to connect to native host. Please check installation."
TimeoutError == "Request timed out"
ConnectionLost == "Native host connection lost"
PostError == "postMessage threw"

\* ---- values of the worker's messages ----
NoField == "undefined"
WorkerErrors == {NoField, "", "worker error"}

\* a download identifier that handleStartDownload never generates
UnknownId == MaxJobs + 1
DownloadIds == 1..UnknownId

\* the messages the worker sends: responses, job events, messages carrying
\* both an id and a job event, and events without a downloadId
Responses == [id : 1..MaxCalls, type : {NoField}, downloadId : {0}, error : WorkerErrors]
JobEvents ==
  [id : {0}, type : {"progress", "complete"}, downloadId : DownloadIds, error : {NoField}]
  \cup [id : {0}, type : {"error"}, downloadId : DownloadIds, error : {"worker error"}]
Mixed == [id : 1..MaxCalls, type : {"complete"}, downloadId : {1}, error : {NoField}]
Malformed == [id : {0}, type : {"progress"}, downloadId : {0}, error : {NoField}]
Messages == Responses \cup JobEvents \cup Mixed \cup Malformed

\* the fields of a message that handleNativeMessage dispatches on
Received(message) ==
  [id |-> message.id, type |-> message.type, downloadId |-> message.downloadId]

\* the value of inbound in a task that handles no message of the worker
NoMessage == [id |-> 0, type |-> NoField, downloadId |-> 0]

VARIABLES
  nativePort,         \* 0 (null) or the index in ports of the handle
  ports,              \* every port created: "open", "closed" or "closedLocal"
  pendingCallbacks,   \* Map: correlation id -> the call whose resolve/reject it holds
  downloadCallbacks,  \* Map keys: the active download identifiers
  messageId,          \* the counter of correlation ids
  timers,             \* calls whose 30 s timer is armed and has not fired
  nextJob,            \* number of download identifiers generated
  callCount,          \* number of calls that created a table entry
  callInfo,           \* the calls that are unsettled or still referenced by
                      \* the table or by a timer
  notified,           \* the notifications emitted by the last task, in order
  terminated,         \* the generated download identifiers for which a
                      \* complete/error notification was emitted
  settled,            \* the calls of resolve/reject made by the last task, in order
  responses,          \* the values handlers returned or threw in the last task
  replies,            \* the calls of sendResponse made by the last task
  attempts,           \* the number of calls of connectNative in the last task
  posted,             \* the messages handed to postMessage in the last task
  inbound,            \* id, type and downloadId of the message the last task handled
  request,            \* the options of the startDownload request the last task
                      \* handled, if it handled one
  task,               \* the kind of the task that has just run, "idle"
                      \* when the loop waits for the next event
  view,               \* popup: the state element that is not hidden
  state,              \* popup: currentVideoInfo, isDownloading, currentDownloadId
  awaiting,           \* popup: the requests sent to the service worker whose
                      \* callback has not run
  applied,            \* popup: the message the onMessage listener has just applied
  popupTask,          \* popup: the function that has just run
  downloadHistory,    \* chrome.storage.local: the value of 'downloadHistory',
                      \* an entry is the number of the call that added it
  defaultHistory,     \* content script: the array DEFAULT_SETTINGS.downloadHistory
  added,              \* the number of calls of addToHistory
  faults              \* the number of those in which a storage operation failed

vars == <<nativePort, ports, pendingCallbacks, downloadCallbacks, messageId,
          timers, nextJob, callCount, callInfo, notified, terminated,
          settled, responses, replies, attempts, posted, inbound, request, task,
          view, state, awaiting, applied, popupTask,
          downloadHistory, defaultHistory, added, faults>>

\* the stored download history and what the model counts about it
storage == <<downloadHistory, defaultHistory, added, faults>>

\* the variables of the popup, and those of the service worker that the
\* popup's requests and the worker's events for it do not go through
popup == <<view, state, awaiting, applied, popupTask>>
channel == <<nativePort, ports, pendingCallbacks, messageId, timers, callCount,
             callInfo, notified, terminated, settled, responses, replies,
             attempts, posted, inbound, request, task>>

\* the loop is idle: the next event can be handled
Ready == task = "idle"

\* JavaScript truthiness of an error field
Truthy(e) == e \notin {NoField, ""}

\* Map.set and Map.delete on a table kept as a function
MapSet(m, k, v) == [x \in (DOMAIN m) \cup {k} |-> IF x = k THEN v ELSE m[x]]
MapDelete(m, k) == [x \in (DOMAIN m) \ {k} |-> m[x]]
MapValues(m) == {m[k] : k \in DOMAIN m}

Min(S) == CHOOSE x \in S : \A y \in S : x <= y

\* the elements of a set of numbers in ascending order (Map insertion order)
RECURSIVE InOrder(_)
InOrder(S) == IF S = {} THEN <<>> ELSE <<Min(S)>> \o InOrder(S \ {Min(S)})

RECURSIVE Flatten(_)
Flatten(ss) == IF ss = <<>> THEN <<>> ELSE Head(ss) \o Flatten(Tail(ss))

RECURSIVE Union(_)
Union(ss) == IF ss = <<>> THEN {} ELSE Head(ss) \cup Union(Tail(ss))

Note(kind, downloadId, via, error) ==
  [kind |-> kind, downloadId |-> downloadId, via |-> via, error |-> error]

\* the terminal notifications for download j among notes
TerminalNotes(notes, j) ==
  SelectSeq(notes, LAMBDA n : n.downloadId = j /\ n.kind \in {"complete", "error"})

\* the generated identifiers with a terminal notification once notes were emitted
Terminated(before, notes) ==
  before \cup {j \in 1..MaxJobs : TerminalNotes(notes, j) # <<>>}

\* ---- notification functions (one entry per call of the function) ----
notifyDownloadProgress(downloadId, via) == Note("progress", downloadId, via, NoField)
\* variant: a completion is reported as one more progress message
notifyDownloadCompleteAsProgress(downloadId, via) ==
  Note("progress", downloadId, via, NoField)

notifyDownloadComplete(downloadId, via) == Note("complete", downloadId, via, NoField)
notifyDownloadError(downloadId, error, via) == Note("error", downloadId, via, error)
notifyStarted(downloadId) == Note("started", downloadId, "start", NoField)

\* ---- what the awaiting handler does when its call settles ----
\* variant: handleTestConnection without its try/catch
HandlerResultRethrow(action, outcome) ==
  CASE action = "download" -> "downloadId"
    [] action = "selectDirectory" -> IF outcome = "resolved" THEN "path" ELSE "thrown"
    [] OTHER -> IF outcome = "resolved"
                THEN (IF action = "test" THEN "connected" ELSE "success")
                ELSE "thrown"

\* the value the handler hands to the message listener
HandlerResult(action, outcome) ==
  CASE action = "test" -> IF outcome = "resolved" THEN "connected" ELSE "notConnected"
    [] action = "download" -> "downloadId"
    [] action = "selectDirectory" -> IF outcome = "resolved" THEN "path" ELSE "thrown"
    [] OTHER -> IF outcome = "resolved" THEN "success" ELSE "thrown"

\* variant: the .catch of handleStartDownload without its delete
RetiredByCancelOnly(action, downloadId, outcome) ==
  IF action = "cancel" /\ outcome = "resolved" THEN {downloadId} ELSE {}

\* the download identifiers the reaction deletes from downloadCallbacks
RetiredBy(action, downloadId, outcome) ==
  IF \/ action = "download" /\ outcome = "rejected"
     \/ action = "cancel" /\ outcome = "resolved"
  THEN {downloadId} ELSE {}

\* variant: a cancel that resolved reports the end of its download
CatchNotesCancelled(action, downloadId, outcome, error) ==
  IF action = "download" /\ outcome = "rejected"
  THEN <<notifyDownloadError(downloadId, error, "catch")>>
  ELSE IF action = "cancel" /\ outcome = "resolved"
       THEN <<notifyDownloadError(downloadId, "cancelled", "catch")>> ELSE <<>>

\* the notifications the reaction emits (.catch of handleStartDownload)
CatchNotes(action, downloadId, outcome, error) ==
  IF action = "download" /\ outcome = "rejected"
  THEN <<notifyDownloadError(downloadId, error, "catch")>> ELSE <<>>

\* the record of a call
NewCall(id, action, downloadId) ==
  [id |-> id, action |-> action, downloadId |-> downloadId, settled |-> FALSE]

\* a call of resolve/reject of the call with record call: by is the id of
\* the message that caused it (0 if none), first is whether the promise was
\* still pending
Settlement(c, call, outcome, error, by) ==
  [call |-> c, id |-> call.id, action |-> call.action, downloadId |-> call.downloadId,
   outcome |-> outcome, error |-> error, by |-> by, first |-> ~call.settled]

\* what is left of a settled call: the id its timer's callback closes over
Spent(call) == [id |-> call.id, action |-> NoField, downloadId |-> 0, settled |-> TRUE]

\* the calls of ci after the settlements ss
RECURSIVE Bump(_, _)
Bump(ci, ss) ==
  IF ss = <<>> THEN ci
  ELSE Bump(IF Head(ss).call \in DOMAIN ci
            THEN [ci EXCEPT ![Head(ss).call] = Spent(ci[Head(ss).call])] ELSE ci,
            Tail(ss))

\* the reactions of a promise run for its first settlement only
ReactionNotes(ss) ==
  Flatten([n \in DOMAIN ss |->
    IF ss[n].first
    THEN CatchNotes(ss[n].action, ss[n].downloadId, ss[n].outcome, ss[n].error)
    ELSE <<>>])

ReactionRetires(ss) ==
  Union([n \in DOMAIN ss |->
    IF ss[n].first
    THEN RetiredBy(ss[n].action, ss[n].downloadId, ss[n].outcome)
    ELSE {}])

ReactionResponses(ss) ==
  Flatten([n \in DOMAIN ss |->
    IF ss[n].first /\ ss[n].action # "download"
    THEN <<[call |-> ss[n].call, action |-> ss[n].action,
            downloadId |-> ss[n].downloadId,
            value |-> HandlerResult(ss[n].action, ss[n].outcome)]>>
    ELSE <<>>])

\* ---- the extension message listener: handleRequest().then(sendResponse) ----
UnknownAction == "Unknown action"
StorageError == "storage.session.set rejected"

\* variant: handleRequest without its try/catch, a handler that throws
\* rejects handleRequest and sendResponse is not called
ListenerReplyUncaught(call, action, value, error) ==
  IF value = "thrown" THEN <<>>
  ELSE <<[call |-> call, action |-> action, value |-> value,
          error |-> IF value = "notConnected" THEN error ELSE NoField]>>

\* what the listener hands to sendResponse for a handler that returned value
\* or threw an error with message error
ListenerReply(call, action, value, error) ==
  IF value = "thrown"
  THEN <<[call |-> call, action |-> action, value |-> NoField, error |-> error]>>
  ELSE <<[call |-> call, action |-> action, value |-> value,
          error |-> IF value = "notConnected" THEN error ELSE NoField]>>

\* the replies to the requests whose handler returned in this task without
\* awaiting a call
ReturnedReplies(returned) ==
  Flatten([n \in DOMAIN returned |->
    ListenerReply(returned[n].call, returned[n].action, returned[n].value, NoField)])

\* the replies to the requests whose handler awaited a call settled by ss
ReactionReplies(ss) ==
  Flatten([n \in DOMAIN ss |->
    IF ss[n].first /\ ss[n].action # "download"
    THEN ListenerReply(ss[n].call, ss[n].action,
                       HandlerResult(ss[n].action, ss[n].outcome), ss[n].error)
    ELSE <<>>])

\* the calls that are unsettled or that the table or an armed timer refers to
Referenced(ci, table, armed) ==
  [c \in {x \in DOMAIN ci :
            ~ci[x].settled \/ x \in armed \/ x \in MapValues(table)} |-> ci[c]]

\* variant: the reactions run before the rest of the handler's body
TaskNotesReactionsFirst(notes, ss) == ReactionNotes(ss) \o notes

\* the notifications of a task in the order of their emission: those of the
\* synchronous body, then those of the reactions, which are microtasks
TaskNotes(notes, ss) == notes \o ReactionNotes(ss)

\* the end of a task: the settlements ss made on the calls ci, after the
\* notifications notes were emitted and downloadCallbacks was left as table
Finish(ci, ss, notes, table, returned) ==
  /\ callInfo' = Referenced(Bump(ci, ss), pendingCallbacks', timers')
  /\ settled' = ss
  /\ responses' = returned \o ReactionResponses(ss)
  /\ replies' = ReturnedReplies(returned) \o ReactionReplies(ss)
  /\ notified' = TaskNotes(notes, ss)
  /\ terminated' = Terminated(terminated, TaskNotes(notes, ss))
  /\ downloadCallbacks' = table \ ReactionRetires(ss)
  /\ UNCHANGED <<popup, storage>>

\* ---- connectToNativeHost: ok is whether connectNative returns a port ----
Teardown == IF nativePort # 0 THEN [ports EXCEPT ![nativePort] = "closedLocal"] ELSE ports

\* variant: the handle keeps the first port
connectToNativeHostFirst(ok) ==
  /\ ports' = IF ok THEN Append(Teardown, "open") ELSE Teardown
  /\ nativePort' = IF ok THEN 1 ELSE nativePort

connectToNativeHost(ok) ==
  /\ ports' = IF ok THEN Append(Teardown, "open") ELSE Teardown
  /\ nativePort' = IF ok THEN Len(ports) + 1 ELSE nativePort

CanConnect == IF Len(ports) < MaxPorts THEN BOOLEAN ELSE {FALSE}

\* ---- sendNativeMessage ----
\* variant: the result of connectToNativeHost is not looked at
SendOutcomeUnchecked(connectOk, postOk) == IF ~postOk THEN "postFail" ELSE "sent"

\* how the send ends: rejected before an id is taken, rejected by the catch
\* around postMessage, or written
SendOutcome(connectOk, postOk) ==
  IF nativePort = 0 /\ ~connectOk THEN "connectFail"
  ELSE IF ~postOk THEN "postFail" ELSE "sent"

\* variant: the counter starts again when a port is created
NextIdPerPort == IF nativePort = 0 THEN 1 ELSE messageId + 1

\* the id of the next call: ++messageId
NextId == messageId + 1

\* variant: every call gets the 30 s timer
HasTimerAlways(action) == TRUE

\* the calls that get the 30 s timer
HasTimer(action) == action # "download"

\* variant: sendNativeMessage never connects
NeedsConnectNever == FALSE

\* sendNativeMessage connects when there is no handle
NeedsConnect == nativePort = 0

\* the calls after the send, and the settlement the send makes at once
SendCalls(action, downloadId, out) ==
  IF out = "connectFail" THEN callInfo
  ELSE MapSet(callInfo, callCount + 1, NewCall(NextId, action, downloadId))
SendSettles(action, downloadId, out) ==
  CASE out = "sent" -> <<>>
    [] out = "postFail" ->
         <<Settlement(callCount + 1, NewCall(NextId, action, downloadId),
                      "rejected", PostError, 0)>>
    [] OTHER ->
         <<Settlement(0, NewCall(0, action, downloadId), "rejected", ConnectError, 0)>>

\* variant: the catch around postMessage rejects without the delete
PostCatchKeeps(table, id) == table

\* the table after the catch around postMessage
PostCatch(table, id) == MapDelete(table, id)

sendNativeMessage(action, downloadId, connectOk, postOk) ==
  /\ Ready
  /\ inbound' = NoMessage
  /\ IF NeedsConnect
     THEN connectToNativeHost(connectOk) /\ attempts' = 1
     ELSE UNCHANGED <<nativePort, ports>> /\ attempts' = 0
  /\ posted' = IF SendOutcome(connectOk, postOk) = "connectFail" THEN <<>>
               ELSE <<[id |-> NextId, action |-> action, downloadId |-> downloadId,
                       ok |-> postOk]>>
  /\ IF SendOutcome(connectOk, postOk) = "connectFail"
     THEN UNCHANGED <<messageId, callCount, pendingCallbacks, timers>>
     ELSE /\ callCount < MaxCalls
          /\ callCount' = callCount + 1
          /\ messageId' = NextId
          /\ pendingCallbacks' =
               IF postOk
               THEN MapSet(pendingCallbacks, NextId, callCount + 1)
               ELSE PostCatch(MapSet(pendingCallbacks, NextId, callCount + 1), NextId)
          /\ timers' = IF HasTimer(action)
                       THEN timers \cup {callCount + 1} ELSE timers

\* ---- the handlers of the extension message listener ----
\* the download identifiers a worker or a caller can name: those generated
\* so far and one that is never generated
KnownIds == (1..nextJob) \cup {UnknownId}

handleTestConnection ==
  \E connectOk \in CanConnect, postOk \in BOOLEAN :
    LET out == SendOutcome(connectOk, postOk)
    IN /\ task' = "testConnection"
       /\ request' = <<>>
       /\ sendNativeMessage("test", 0, connectOk, postOk)
       /\ Finish(SendCalls("test", 0, out), SendSettles("test", 0, out),
                 <<>>, downloadCallbacks, <<>>)
       /\ UNCHANGED nextJob

\* variant: the identifier repeats the one generated before
NewDownloadIdRepeated == IF nextJob = 0 THEN nextJob + 1 ELSE nextJob

\* the identifier handleStartDownload generates (time and random suffix)
NewDownloadId == nextJob + 1

\* the options of a startDownload request: with or without url and title
StartRequests == [url : {NoField, "url"}, title : {NoField, "title"}]

\* the requests handleStartDownload goes on with: it reads options.url and
\* options.title into the message and the notification and tests neither
TakesRequest(options) == TRUE

handleStartDownload ==
  \E connectOk \in CanConnect, postOk \in BOOLEAN, options \in StartRequests :
    LET downloadId == NewDownloadId
        out == SendOutcome(connectOk, postOk)
    IN /\ task' = "startDownload"
       /\ TakesRequest(options)
       /\ request' = <<options>>
       /\ nextJob < MaxJobs
       /\ nextJob' = nextJob + 1
       /\ sendNativeMessage("download", downloadId, connectOk, postOk)
       /\ Finish(SendCalls("download", downloadId, out),
                 SendSettles("download", downloadId, out),
                 <<notifyStarted(downloadId)>>,
                 downloadCallbacks \cup {downloadId},
                 <<[call |-> IF out = "connectFail" THEN 0 ELSE callCount + 1,
                    action |-> "download", downloadId |-> downloadId,
                    value |-> HandlerResult("download", "pending")]>>)

handleCancelDownload(downloadId) ==
  \E connectOk \in CanConnect, postOk \in BOOLEAN :
    LET out == SendOutcome(connectOk, postOk)
    IN /\ task' = "cancelDownload"
       /\ request' = <<>>
       /\ downloadId \in KnownIds
       /\ sendNativeMessage("cancel", downloadId, connectOk, postOk)
       /\ Finish(SendCalls("cancel", downloadId, out),
                 SendSettles("cancel", downloadId, out),
                 <<>>, downloadCallbacks, <<>>)
       /\ UNCHANGED nextJob

handleSelectDirectory ==
  \E connectOk \in CanConnect, postOk \in BOOLEAN :
    LET out == SendOutcome(connectOk, postOk)
    IN /\ task' = "selectDirectory"
       /\ request' = <<>>
       /\ sendNativeMessage("selectDirectory", 0, connectOk, postOk)
       /\ Finish(SendCalls("selectDirectory", 0, out),
                 SendSettles("selectDirectory", 0, out),
                 <<>>, downloadCallbacks, <<>>)
       /\ UNCHANGED nextJob

handleOpenFolder ==
  \E connectOk \in CanConnect, postOk \in BOOLEAN :
    LET out == SendOutcome(connectOk, postOk)
    IN /\ task' = "openFolder"
       /\ request' = <<>>
       /\ sendNativeMessage("openFolder", 0, connectOk, postOk)
       /\ Finish(SendCalls("openFolder", 0, out), SendSettles("openFolder", 0, out),
                 <<>>, downloadCallbacks, <<>>)
       /\ UNCHANGED nextJob

\* ---- the requests the listener answers without a handler ----
\* a task that sends nothing, handles no message and touches no table
Untouched ==
  /\ Ready
  /\ inbound' = NoMessage
  /\ request' = <<>>
  /\ attempts' = 0
  /\ posted' = <<>>
  /\ settled' = <<>>
  /\ responses' = <<>>
  /\ notified' = <<>>
  /\ UNCHANGED <<nativePort, ports, pendingCallbacks, messageId, callCount,
                 timers, nextJob, callInfo, terminated>>
  /\ UNCHANGED <<popup, storage>>

\* case 'openPopup': storeOk is whether chrome.storage.session.set resolves
openPopup(storeOk) ==
  /\ task' = "openPopup"
  /\ Untouched
  /\ UNCHANGED downloadCallbacks
  /\ replies' = ListenerReply(0, "openPopup",
                              IF storeOk THEN "success" ELSE "thrown", StorageError)

\* the downloads the default case of the switch removes
UnknownActionRetires == {}

\* default: the switch returns { error: 'Unknown action' }
unknownAction ==
  /\ task' = "unknownAction"
  /\ Untouched
  /\ downloadCallbacks' = downloadCallbacks \ UnknownActionRetires
  /\ replies' = <<[call |-> 0, action |-> "unknown", value |-> NoField,
                   error |-> UnknownAction]>>

\* ---- a chrome.runtime.sendMessage of a notification rejects ----
\* the messages of the last task for the popup (the started notification is
\* a desktop notification only)
PopupNotes == SelectSeq(notified, LAMBDA n : n.kind # "started")

\* variant: a failed delivery gives up the downloads it was about
SwallowedRetiresNoted == {PopupNotes[n].downloadId : n \in DOMAIN PopupNotes}

\* the downloads the .catch(() => {}) of a notification removes
SwallowedRetires == {}

\* no popup received the messages of the task that has just run: the
\* rejection handlers run, and they read and write nothing
deliveryFailed ==
  /\ task \notin {"idle", "deliveryFailed"}
  /\ PopupNotes # <<>>
  /\ task' = "deliveryFailed"
  /\ inbound' = NoMessage
  /\ request' = <<>>
  /\ attempts' = 0
  /\ posted' = <<>>
  /\ UNCHANGED <<nativePort, ports, pendingCallbacks, messageId, callCount,
                 timers, nextJob>>
  /\ Finish(callInfo, <<>>, <<>>, downloadCallbacks \ SwallowedRetires, <<>>)

\* ---- handleNativeMessage ----
\* variant: a response is given to the oldest pending call
PendingMatchOldest(message) ==
  IF message.id # 0 /\ message.id \in DOMAIN pendingCallbacks
  THEN Min(DOMAIN pendingCallbacks) ELSE 0

\* the key of the pending call the message is matched to, 0 if none
PendingMatch(message) ==
  IF message.id # 0 /\ message.id \in DOMAIN pendingCallbacks THEN message.id ELSE 0

\* variant: a progress event is notified once more when it is handled
EventNotesTwice(message) ==
  (IF message.type = "progress" /\ message.downloadId # 0
   THEN <<notifyDownloadProgress(message.downloadId, "event"),
          notifyDownloadProgress(message.downloadId, "event")>> ELSE <<>>)
  \o (IF message.type = "complete" /\ message.downloadId # 0
      THEN <<notifyDownloadComplete(message.downloadId, "event")>> ELSE <<>>)
  \o (IF message.type = "error" /\ message.downloadId # 0
      THEN <<notifyDownloadError(message.downloadId, message.error, "event")>> ELSE <<>>)

\* the notifications of a message that matched no pending call
EventNotes(message) ==
  (IF message.type = "progress" /\ message.downloadId # 0
   THEN <<notifyDownloadProgress(message.downloadId, "event")>> ELSE <<>>)
  \o (IF message.type = "complete" /\ message.downloadId # 0
      THEN <<notifyDownloadComplete(message.downloadId, "event")>> ELSE <<>>)
  \o (IF message.type = "error" /\ message.downloadId # 0
      THEN <<notifyDownloadError(message.downloadId, message.error, "event")>> ELSE <<>>)

\* variant: a progress event deletes its download too
EventRetiresOnProgress(message) ==
  IF message.downloadId # 0 THEN {message.downloadId} ELSE {}

\* the identifiers a message that matched no pending call deletes
EventRetires(message) ==
  IF message.type \in {"complete", "error"} /\ message.downloadId # 0
  THEN {message.downloadId} ELSE {}

\* variant: no return after the pending call was settled
MatchedNotesFallThrough(message) == EventNotes(message)

\* the notifications of a message that matched a pending call: the
\* function returns before it looks at type and downloadId
MatchedNotes(message) == <<>>

\* the identifiers a message that matched a pending call deletes
MatchedRetires(message) == {}

handleNativeMessage(message) ==
  /\ Ready
  /\ task' = "nativeMessage"
  /\ inbound' = Received(message)
  /\ request' = <<>>
  /\ message.id <= messageId
  /\ attempts' = 0
  /\ posted' = <<>>
  /\ nativePort # 0
  /\ ports[nativePort] = "open"
  /\ message.downloadId \in KnownIds \cup {0}
  /\ UNCHANGED <<nativePort, ports, messageId, callCount, timers, nextJob>>
  /\ IF PendingMatch(message) # 0
     THEN LET key == PendingMatch(message)
              c == pendingCallbacks[key]
              outcome == IF Truthy(message.error) THEN "rejected" ELSE "resolved"
          IN /\ pendingCallbacks' = MapDelete(pendingCallbacks, key)
             /\ Finish(callInfo,
                       <<Settlement(c, callInfo[c], outcome, message.error, message.id)>>,
                       MatchedNotes(message),
                       downloadCallbacks \ MatchedRetires(message), <<>>)
     ELSE /\ UNCHANGED pendingCallbacks
          /\ Finish(callInfo, <<>>, EventNotes(message),
                    downloadCallbacks \ EventRetires(message), <<>>)

\* ---- the onDisconnect listener of port p ----
PendingInOrder ==
  [n \in 1..Cardinality(DOMAIN pendingCallbacks) |->
     pendingCallbacks[InOrder(DOMAIN pendingCallbacks)[n]]]

\* variant: the listener rejects only the calls that have a timer
DisconnectRejectsTimed ==
  SelectSeq(PendingInOrder, LAMBDA c : callInfo[c].action # "download")

\* the calls the listener rejects, in the order of the table
DisconnectRejects == PendingInOrder

\* variant: the listener reports every download that was ever started
DisconnectNotesAll ==
  [n \in 1..nextJob |-> notifyDownloadError(n, ConnectionLost, "disconnect")]

\* the notifications of the listener's loop over downloadCallbacks
DisconnectNotes ==
  [n \in 1..Cardinality(downloadCallbacks) |->
     notifyDownloadError(InOrder(downloadCallbacks)[n], ConnectionLost, "disconnect")]

\* variant: the listener does not clear downloadCallbacks
DisconnectLeavesJobs == downloadCallbacks

\* downloadCallbacks after the listener's clear()
DisconnectLeaves == {}

onDisconnect(p) ==
  /\ Ready
  /\ task' = "disconnect"
  /\ inbound' = NoMessage
  /\ request' = <<>>
  /\ attempts' = 0
  /\ posted' = <<>>
  /\ p \in DOMAIN ports
  /\ ports[p] = "open"
  /\ ports' = [ports EXCEPT ![p] = "closed"]
  /\ nativePort' = 0
  /\ pendingCallbacks' = <<>>
  /\ UNCHANGED <<messageId, callCount, timers, nextJob>>
  /\ Finish(callInfo,
            [n \in DOMAIN DisconnectRejects |->
               Settlement(DisconnectRejects[n], callInfo[DisconnectRejects[n]],
                          "rejected", DisconnectedError, 0)],
            DisconnectNotes, DisconnectLeaves, <<>>)

\* ---- the 30 s timer of call c fires ----
\* variant: the timer rejects without looking at the table
TimerFindsAlways(id) == TRUE

\* the timer's check that its call is still pending
TimerFinds(id) == id \in DOMAIN pendingCallbacks

\* variant: the timer deletes the entry and does not reject
TimerSettlesNothing(c) == <<>>

\* the timer rejects its call with the timeout error
TimerSettles(c) == <<Settlement(c, callInfo[c], "rejected", TimeoutError, 0)>>

\* variant: the timer clears the table
TimerDeletesAll(id) == <<>>

\* pendingCallbacks after the timer's delete
TimerDeletes(id) == MapDelete(pendingCallbacks, id)

\* variant: the callback reads the counter when it runs
TimerKeyLatest(c) == messageId

\* the id the timer's callback looks up: the const id of its own call
TimerKey(c) == callInfo[c].id

timeout(c) ==
  /\ Ready
  /\ task' = "timeout"
  /\ inbound' = NoMessage
  /\ request' = <<>>
  /\ attempts' = 0
  /\ posted' = <<>>
  /\ c \in timers
  /\ timers' = timers \ {c}
  /\ UNCHANGED <<nativePort, ports, messageId, callCount, nextJob>>
  /\ IF TimerFinds(TimerKey(c))
     THEN /\ pendingCallbacks' = TimerDeletes(TimerKey(c))
          /\ Finish(callInfo, TimerSettles(c), <<>>, downloadCallbacks, <<>>)
     ELSE /\ UNCHANGED pendingCallbacks
          /\ Finish(callInfo, <<>>, <<>>, downloadCallbacks, <<>>)

\* ---- the 25 s keep-alive interval: it reads downloadCallbacks.size ----
keepAlive ==
  /\ Ready
  /\ task' = "keepAlive"
  /\ inbound' = NoMessage
  /\ request' = <<>>
  /\ attempts' = 0
  /\ posted' = <<>>
  /\ UNCHANGED <<nativePort, ports, pendingCallbacks, messageId, callCount,
                 timers, nextJob>>
  /\ Finish(callInfo, <<>>, <<>>, downloadCallbacks, <<>>)

\* ---- the task and its reactions have ended: the loop is idle ----
taskEnd ==
  /\ ~Ready
  /\ task' = "idle"
  /\ inbound' = NoMessage
  /\ request' = <<>>
  /\ attempts' = 0
  /\ posted' = <<>>
  /\ settled' = <<>>
  /\ responses' = <<>>
  /\ replies' = <<>>
  /\ notified' = <<>>
  /\ UNCHANGED <<nativePort, ports, pendingCallbacks, downloadCallbacks, messageId,
                 timers, nextJob, callCount, callInfo, terminated>>
  /\ UNCHANGED <<popup, storage>>

\* ================= the popup (src/popup/popup.js) =================
\* what the popup receives for a notification of the service worker
ActionOf(kind) ==
  CASE kind = "progress" -> "downloadProgress"
    [] kind = "complete" -> "downloadComplete"
    [] kind = "error" -> "downloadError"
Sent(note) == [action |-> ActionOf(note.kind), downloadId |-> note.downloadId]

\* the value of applied when the popup has applied no message
NothingApplied == [action |-> NoField, downloadId |-> 0]

\* the notifications the service worker can send
Notifications ==
  {notifyDownloadProgress(d, "event") : d \in DownloadIds}
  \cup {notifyDownloadComplete(d, "event") : d \in DownloadIds}
  \cup {notifyDownloadError(d, "worker error", "event") : d \in DownloadIds}

\* the sequence seq without its n-th element
Without(seq, n) == SubSeq(seq, 1, n - 1) \o SubSeq(seq, n + 1, Len(seq))

\* the state of a popup that has been opened: init() has run
Opened(videoInfo) ==
  [currentVideoInfo |-> videoInfo, isDownloading |-> FALSE, currentDownloadId |-> 0]

\* the popup is opened (again): a new document with a new state; videoInfo
\* is whether the tab shows a video
init(videoInfo) ==
  /\ popupTask' = "init"
  /\ view' = IF videoInfo THEN "videoInfoState" ELSE "notYoutubeState"
  /\ state' = Opened(videoInfo)
  /\ awaiting' = <<>>
  /\ applied' = NothingApplied
  /\ UNCHANGED <<channel, nextJob, downloadCallbacks, storage>>

\* variant: startDownload tests the video info only
StartReturnsWithoutVideo == ~state.currentVideoInfo

\* startDownload returns at once
StartReturns == state.isDownloading \/ ~state.currentVideoInfo

\* a click on downloadBtn or retryBtn
startDownload ==
  /\ popupTask' = "startDownload"
  /\ view \in {"videoInfoState", "errorState"}
  /\ applied' = NothingApplied
  /\ IF StartReturns
     THEN UNCHANGED <<view, state, awaiting>>
     ELSE /\ Len(awaiting) < MaxCalls
          /\ state' = [state EXCEPT !.isDownloading = TRUE]
          /\ view' = "progressState"
          /\ awaiting' = Append(awaiting, [action |-> "startDownload", downloadId |-> 0])
  /\ UNCHANGED <<channel, nextJob, downloadCallbacks, storage>>

\* the service worker handles the startDownload request n: handleStartDownload
\* generates the downloadId and answers with it; failed is whether the
\* 'download' call was rejected at once (no connection, failed write), in
\* which case the download is removed again and its error is notified
startDownloadHandled(n, failed) ==
  /\ popupTask' = "worker"
  /\ n \in DOMAIN awaiting
  /\ awaiting[n].action = "startDownload"
  /\ awaiting[n].downloadId = 0
  /\ nextJob < MaxJobs
  /\ nextJob' = nextJob + 1
  /\ downloadCallbacks' =
       IF failed THEN downloadCallbacks ELSE downloadCallbacks \cup {NewDownloadId}
  /\ awaiting' = [awaiting EXCEPT ![n].downloadId = NewDownloadId]
  /\ applied' = NothingApplied
  /\ UNCHANGED <<view, state, channel, storage>>

\* the callback of the startDownload request runs: ok is whether the
\* response { downloadId } has arrived, otherwise chrome.runtime.lastError
\* is set
startDownloadReply(n, ok) ==
  /\ popupTask' = "startDownloadReply"
  /\ n \in DOMAIN awaiting
  /\ awaiting[n].action = "startDownload"
  /\ awaiting' = Without(awaiting, n)
  /\ applied' = NothingApplied
  /\ IF ok
     THEN /\ awaiting[n].downloadId # 0
          /\ state' = [state EXCEPT !.currentDownloadId = awaiting[n].downloadId,
                                    !.isDownloading = FALSE]
          /\ view' = view
     ELSE /\ state' = [state EXCEPT !.isDownloading = FALSE]
          /\ view' = "errorState"
  /\ UNCHANGED <<channel, nextJob, downloadCallbacks, storage>>

\* a click on cancelBtn
cancelDownload ==
  /\ popupTask' = "cancelDownload"
  /\ view = "progressState"
  /\ applied' = NothingApplied
  /\ IF state.currentDownloadId # 0
     THEN /\ Len(awaiting) < MaxCalls
          /\ awaiting' = Append(awaiting, [action |-> "cancelDownload",
                                           downloadId |-> state.currentDownloadId])
          /\ state' = state
     ELSE /\ awaiting' = awaiting
          /\ state' = [state EXCEPT !.currentDownloadId = 0]
  /\ view' = view
  /\ UNCHANGED <<channel, nextJob, downloadCallbacks, storage>>

\* the callback of a cancelDownload request runs: ok is whether the response
\* is { success: true } (handleCancelDownload has deleted the download),
\* otherwise it carries an error or lastError is set
cancelDownloadReply(n, ok) ==
  /\ popupTask' = "cancelDownloadReply"
  /\ n \in DOMAIN awaiting
  /\ awaiting[n].action = "cancelDownload"
  /\ awaiting' = Without(awaiting, n)
  /\ applied' = NothingApplied
  /\ view' = IF ok THEN "videoInfoState" ELSE view
  /\ downloadCallbacks' =
       IF ok THEN downloadCallbacks \ {awaiting[n].downloadId} ELSE downloadCallbacks
  /\ state' = [state EXCEPT !.currentDownloadId = 0]
  /\ UNCHANGED <<channel, nextJob, storage>>

\* the popup's chrome.runtime.onMessage listener receives a notification
onMessage(note) ==
  LET message == Sent(note)
  IN /\ popupTask' = "onMessage"
     /\ note.downloadId \in KnownIds
     /\ applied' = message
     /\ awaiting' = awaiting
     /\ CASE message.action = "downloadProgress" ->
               /\ view' = view
               /\ state' = state
               /\ downloadCallbacks' = downloadCallbacks
          [] message.action = "downloadComplete" ->
               /\ view' = "successState"
               /\ state' = [state EXCEPT !.currentDownloadId = 0]
               /\ downloadCallbacks' = downloadCallbacks \ {message.downloadId}
          [] message.action = "downloadError" ->
               /\ view' = "errorState"
               /\ state' = [state EXCEPT !.currentDownloadId = 0]
               /\ downloadCallbacks' = downloadCallbacks \ {message.downloadId}
     /\ UNCHANGED <<channel, nextJob, storage>>

\* a click on downloadAnotherBtn or backBtn
backToVideoInfo ==
  /\ popupTask' = "backToVideoInfo"
  /\ view \in {"successState", "errorState"}
  /\ view' = "videoInfoState"
  /\ applied' = NothingApplied
  /\ UNCHANGED <<state, awaiting, channel, nextJob, downloadCallbacks, storage>>

\* ================= the download history =================
\* history.splice(50) when history.length > 50
Keep(history) ==
  IF Len(history) > HistoryLimit THEN SubSeq(history, 1, HistoryLimit) ELSE history

\* history.unshift(entry) and the cut
Unshift(history, entry) == Keep(<<entry>> \o history)

\* whether a storage operation of the call fails
Faulty(getOk, setOk) == IF getOk /\ setOk THEN 0 ELSE 1

\* addToHistory of popup.js, run from its first line to its last: getOk and
\* setOk are whether chrome.storage.local.get and set resolve; a rejection
\* is caught and logged
addToHistory(getOk, setOk) ==
  /\ added < MaxAdds
  /\ faults + Faulty(getOk, setOk) <= MaxFaults
  /\ added' = added + 1
  /\ faults' = faults + Faulty(getOk, setOk)
  /\ downloadHistory' =
       IF getOk /\ setOk THEN Unshift(downloadHistory, added + 1) ELSE downloadHistory
  /\ defaultHistory' = defaultHistory
  /\ UNCHANGED <<channel, nextJob, downloadCallbacks, popup>>

\* the array addToHistory of content.js works on: what get returns, which is
\* the stored value, or the array of DEFAULT_SETTINGS itself when
\* chrome.storage.local.get rejects
Got(getOk) == IF getOk THEN downloadHistory ELSE defaultHistory

\* addToHistory of content.js, run from its first line to its last; set
\* catches a rejection and returns false, which is not looked at
addToHistoryContent(getOk, setOk) ==
  /\ added < MaxAdds
  /\ faults + Faulty(getOk, setOk) <= MaxFaults
  /\ added' = added + 1
  /\ faults' = faults + Faulty(getOk, setOk)
  /\ defaultHistory' = IF getOk THEN defaultHistory ELSE Unshift(Got(getOk), added + 1)
  /\ downloadHistory' =
       IF setOk THEN Unshift(Got(getOk), added + 1) ELSE downloadHistory
  /\ UNCHANGED <<channel, nextJob, downloadCallbacks, popup>>

\* ---- the state after the script has run: the startup connect was tried ----
Init ==
  /\ \E ok \in BOOLEAN :
       /\ ports = IF ok THEN <<"open">> ELSE <<>>
       /\ nativePort = IF ok THEN 1 ELSE 0
  /\ attempts = 1
  /\ posted = <<>>
  /\ inbound = NoMessage
  /\ request = <<>>
  /\ pendingCallbacks = <<>>
  /\ downloadCallbacks = {}
  /\ messageId = 0
  /\ timers = {}
  /\ nextJob = 0
  /\ callCount = 0
  /\ callInfo = <<>>
  /\ notified = <<>>
  /\ terminated = {}
  /\ settled = <<>>
  /\ responses = <<>>
  /\ replies = <<>>
  /\ task = "startup"
  /\ view = "videoInfoState"
  /\ state = Opened(TRUE)
  /\ awaiting = <<>>
  /\ applied = NothingApplied
  /\ popupTask = "init"
  /\ downloadHistory = <<>>
  /\ defaultHistory = <<>>
  /\ added = 0
  /\ faults = 0

Next ==
  \/ handleTestConnection
  \/ handleStartDownload
  \/ \E downloadId \in DownloadIds : handleCancelDownload(downloadId)
  \/ handleSelectDirectory
  \/ handleOpenFolder
  \/ \E storeOk \in BOOLEAN : openPopup(storeOk)
  \/ unknownAction
  \/ \E message \in Messages : handleNativeMessage(message)
  \/ \E p \in 1..MaxPorts : onDisconnect(p)
  \/ \E c \in 1..MaxCalls : timeout(c)
  \/ keepAlive
  \/ deliveryFailed
  \/ taskEnd

Spec == Init /\ [][Next]_vars

\* every task ends, and while timers are armed, which can fire whenever the
\* loop is idle, one of them fires in the end (setTimeout of
\* sendNativeMessage); this is the least the timers of the browser do
LiveSpec ==
  Spec /\ WF_vars(taskEnd) /\ SF_vars(\E c \in 1..MaxCalls : timeout(c))

\* the popup, with the service worker as the source of the responses and
\* of the notifications
PopupNext ==
  \/ \E videoInfo \in BOOLEAN : init(videoInfo)
  \/ startDownload
  \/ \E n \in 1..MaxCalls, failed \in BOOLEAN : startDownloadHandled(n, failed)
  \/ \E n \in 1..MaxCalls, ok \in BOOLEAN : startDownloadReply(n, ok)
  \/ cancelDownload
  \/ \E n \in 1..MaxCalls, ok \in BOOLEAN : cancelDownloadReply(n, ok)
  \/ \E note \in Notifications : onMessage(note)
  \/ backToVideoInfo

PopupSpec == Init /\ [][PopupNext]_vars

\* the download history under calls of addToHistory that run one at a time
HistoryNext ==
  \/ \E getOk \in BOOLEAN, setOk \in BOOLEAN : addToHistory(getOk, setOk)
  \/ \E getOk \in BOOLEAN, setOk \in BOOLEAN : addToHistoryContent(getOk, setOk)

HistorySpec == Init /\ [][HistoryNext]_vars

\* ======================= properties =======================
ErrorNotes(notes, j) ==
  SelectSeq(notes, LAMBDA n : n.downloadId = j /\ n.kind = "error")
NotesFor(notes, j) == SelectSeq(notes, LAMBDA n : n.downloadId = j)

\* C1: a message carrying id i settles at most one call, and only the call
\* that was assigned id i; no call is settled with a message of another id.
C1_NoCrossTalk ==
  /\ task = "nativeMessage" => Len(settled) <= 1
  /\ \A n \in DOMAIN settled : settled[n].by # 0 => settled[n].id = settled[n].by

\* two calls pending, the response to the second arrives first
C1_Witness ==
  /\ task = "nativeMessage"
  /\ Len(settled) = 1
  /\ settled[1].by = 2
  /\ settled[1].id = 2
  /\ 1 \in DOMAIN pendingCallbacks

\* C2: resolve/reject is never called for a call that was settled before,
\* whatever the order of its response, its timer, a disconnect and a
\* postMessage failure.
C2_SettledAtMostOnce ==
  /\ \A n \in DOMAIN settled : settled[n].first
  /\ \A m, n \in DOMAIN settled :
       (settled[m].call = settled[n].call /\ settled[n].call # 0) => m = n

\* the timer of a call fires after the call was settled by something else
C2_Witness ==
  /\ task = "timeout"
  /\ settled = <<>>
  /\ messageId >= 1

\* C3: when the disconnect listener has run, no call is left unsettled, every
\* call it settled was rejected with the disconnect error, both tables are
\* empty and there is no handle.
C3_DisconnectFailsAll ==
  task = "disconnect" =>
    /\ \A c \in DOMAIN callInfo : callInfo[c].settled
    /\ \A n \in DOMAIN settled :
         settled[n].outcome = "rejected" /\ settled[n].error = DisconnectedError
    /\ pendingCallbacks = <<>>
    /\ downloadCallbacks = {}
    /\ nativePort = 0

\* a disconnect with a download call and a second call pending and a job active
C3_Witness ==
  /\ task = "disconnect"
  /\ Len(settled) = 2
  /\ \E n \in DOMAIN settled : settled[n].action = "download"
  /\ \E n \in DOMAIN notified : notified[n].via = "disconnect"

\* C4: a disconnect causes exactly one error notification for every job
\* that is active when it happens.
C4_OneErrorPerActiveJob ==
  [][task' = "disconnect" =>
       \A j \in downloadCallbacks : Len(ErrorNotes(notified', j)) = 1]_vars

\* C5: a job event whose downloadId is not in downloadCallbacks produces
\* no notification and adds nothing to the table.
C5_InactiveEventDropped ==
  [][task' = "nativeMessage" =>
       /\ \A n \in DOMAIN notified' :
            notified'[n].via = "event" => notified'[n].downloadId \in downloadCallbacks
       /\ downloadCallbacks' \subseteq downloadCallbacks]_vars

\* C6: a download identifier gets at most one terminal notification, and
\* no notification of any kind after it.
C6_OneTerminalThenSilence ==
  [][\A j \in 1..MaxJobs :
       /\ Len(TerminalNotes(notified', j)) <= 1
       /\ j \in terminated => NotesFor(notified', j) = <<>>]_vars

\* C7: when handleCancelDownload has finished, with success or failure,
\* its download is not in downloadCallbacks.
C7_CancelAlwaysRetires ==
  \A n \in DOMAIN responses :
    responses[n].action = "cancel" => responses[n].downloadId \notin downloadCallbacks

\* C8: handleCancelDownload of a downloadId that is not in downloadCallbacks
\* fails at once and allocates no id, stores no entry, arms no timer, opens
\* no port.
C8_UnknownCancelLeavesChannel ==
  [][\A d \in DownloadIds \ downloadCallbacks :
       (/\ task' = "cancelDownload"
        /\ \/ callCount' # callCount /\ callInfo'[callCount'].downloadId = d
           \/ /\ callCount' = callCount
              /\ Len(settled') = 1
              /\ settled'[1].downloadId = d)
       => /\ Len(responses') = 1
          /\ responses'[1].value = "thrown"
          /\ messageId' = messageId
          /\ pendingCallbacks' = pendingCallbacks
          /\ timers' = timers
          /\ ports' = ports]_vars

\* C9: handleStartDownload returns a download identifier and never throws;
\* a rejected 'download' call (connection, write or worker failure) gives an
\* error notification for its download and removes it from downloadCallbacks.
C9_StartFailureIsJobError ==
  /\ task = "startDownload" =>
       /\ Len(responses) = 1
       /\ responses[1].action = "download"
  /\ \A n \in DOMAIN responses :
       responses[n].action = "download" => responses[n].value = "downloadId"
  /\ \A n \in DOMAIN settled :
       (settled[n].action = "download" /\ settled[n].outcome = "rejected")
       => /\ settled[n].downloadId \notin downloadCallbacks
          /\ \E k \in DOMAIN notified :
               notified[k] = Note("error", settled[n].downloadId, "catch", settled[n].error)

\* handleStartDownload while the port is absent and cannot be created
C9_Witness ==
  /\ task = "startDownload"
  /\ Len(settled) = 1
  /\ settled[1].error = ConnectError
  /\ Len(notified) = 2

\* C10: handleTestConnection never throws: every failure of the 'test' call
\* gives connected: false, and connected: true is returned only for a
\* response with the call's own id and no error.
C10_TestNeverThrows ==
  /\ \A n \in DOMAIN settled :
       settled[n].action = "test" =>
         \E r \in DOMAIN responses :
           /\ responses[r].call = settled[n].call
           /\ responses[r].action = "test"
           /\ responses[r].value =
                IF settled[n].outcome = "resolved" THEN "connected" ELSE "notConnected"
  /\ \A r \in DOMAIN responses :
       responses[r].action = "test" =>
         /\ responses[r].value \in {"connected", "notConnected"}
         /\ responses[r].value = "connected" =>
              \E n \in DOMAIN settled :
                /\ settled[n].call = responses[r].call
                /\ settled[n].by # 0
                /\ settled[n].by = settled[n].id
                /\ ~Truthy(settled[n].error)

\* handleTestConnection while the port is absent and cannot be created
C10_Witness ==
  /\ task = "testConnection"
  /\ Len(settled) = 1
  /\ settled[1].error = ConnectError
  /\ responses = <<[call |-> 0, action |-> "test", downloadId |-> 0,
                    value |-> "notConnected"]>>

\* the tasks that run sendNativeMessage
Senders ==
  {"testConnection", "startDownload", "cancelDownload", "selectDirectory", "openFolder"}

\* call c was sent with a timer and is not settled
AwaitsTimer(c) ==
  c \in DOMAIN callInfo /\ ~callInfo[c].settled /\ callInfo[c].action # "download"

\* C11: a call other than 'download' that was sent does not stay unsettled
\* forever when its timer fires in the end (it is always eventually not
\* awaiting), and once sent it is settled only by a response with its own
\* id, by the timeout error or by the disconnect error.
C11_EventuallySettled ==
  /\ [](\A n \in DOMAIN settled :
         (settled[n].action # "download" /\ task \notin Senders) =>
           \/ settled[n].by # 0 /\ settled[n].by = settled[n].id
           \/ settled[n].by = 0 /\ settled[n].error \in {TimeoutError, DisconnectedError})
  /\ \A c \in 1..MaxCalls : []<>~AwaitsTimer(c)

\* the timer of a pending call has fired and rejected it
C11_Witness ==
  /\ task = "timeout"
  /\ Len(settled) = 1
  /\ settled[1].error = TimeoutError
  /\ settled[1].first

\* C12: only a timer rejects with the timeout error, only a call whose
\* action is not 'download' and that is in pendingCallbacks when the timer
\* fires; a timer settles no 'download' call and leaves downloadCallbacks
\* as it was.
C12_TimerSparesDownloads ==
  [][/\ \A n \in DOMAIN settled' :
          settled'[n].error = TimeoutError =>
            /\ task' = "timeout"
            /\ settled'[n].action # "download"
            /\ settled'[n].id \in DOMAIN pendingCallbacks
     /\ task' = "timeout" =>
          /\ downloadCallbacks' = downloadCallbacks
          /\ \A n \in DOMAIN settled' : settled'[n].action # "download"
          /\ notified' = <<>>]_vars

\* a timer has rejected a call while a download was active; the download
\* stays active
C12_Witness ==
  /\ task = "timeout"
  /\ Len(settled) = 1
  /\ settled[1].error = TimeoutError
  /\ downloadCallbacks # {}
  /\ \E c \in DOMAIN callInfo : callInfo[c].action = "download" /\ ~callInfo[c].settled

\* C13: a download leaves downloadCallbacks only by a complete/error message
\* of the worker for its downloadId, by a cancel of it, or by a disconnect.
C13_ThreeWaysOut ==
  [][\A j \in downloadCallbacks \ downloadCallbacks' :
       \/ /\ task' = "nativeMessage"
          /\ inbound'.downloadId = j
          /\ inbound'.type \in {"complete", "error"}
       \/ \E n \in DOMAIN settled' :
            settled'[n].action = "cancel" /\ settled'[n].downloadId = j
       \/ task' = "disconnect"]_vars

\* C13 as the code has it: a download leaves downloadCallbacks only by a
\* complete/error message for its downloadId that matched no pending call,
\* by a cancel call for it that resolved, by a disconnect, or by the
\* rejection of its own 'download' call.
C13_FourWaysOut ==
  [][\A j \in downloadCallbacks \ downloadCallbacks' :
       \/ /\ task' = "nativeMessage"
          /\ settled' = <<>>
          /\ inbound'.downloadId = j
          /\ inbound'.type \in {"complete", "error"}
       \/ \E n \in DOMAIN settled' :
            /\ settled'[n].action = "cancel"
            /\ settled'[n].downloadId = j
            /\ settled'[n].outcome = "resolved"
       \/ task' = "disconnect"
       \/ \E n \in DOMAIN settled' :
            /\ settled'[n].action = "download"
            /\ settled'[n].downloadId = j
            /\ settled'[n].outcome = "rejected"]_vars

\* the worker answered a 'download' call with an error: its download was
\* active and is removed
C13_Witness ==
  /\ task = "nativeMessage"
  /\ Len(settled) = 1
  /\ settled[1].action = "download"
  /\ settled[1].outcome = "rejected"
  /\ settled[1].by = settled[1].id
  /\ settled[1].downloadId \notin downloadCallbacks
  /\ inbound.type = NoField

\* C14: only handleStartDownload adds to downloadCallbacks, and what it adds
\* was never generated before; every identifier in the table was generated,
\* so an identifier that was removed is never added again and no message of
\* the worker adds one.
C14_Absorbing ==
  [][/\ nextJob' >= nextJob
     /\ downloadCallbacks \subseteq 1..nextJob
     /\ downloadCallbacks' \subseteq 1..nextJob'
     /\ \A j \in downloadCallbacks' \ downloadCallbacks :
          /\ task' = "startDownload"
          /\ j > nextJob]_vars

\* a second download was started after the first one was removed
C14_Witness ==
  /\ task = "startDownload"
  /\ nextJob = 2
  /\ downloadCallbacks = {2}
  /\ 1 \in terminated

\* C15: sendNativeMessage without a handle whose connection attempt fails
\* rejects with the connection error and takes no id, stores no entry, arms
\* no timer and writes no message.
C15_ConnectFailureSendsNothing ==
  [][(task' \in Senders /\ nativePort = 0 /\ attempts' = 1 /\ nativePort' = 0) =>
       /\ Len(settled') = 1
       /\ settled'[1].outcome = "rejected"
       /\ settled'[1].error = ConnectError
       /\ messageId' = messageId
       /\ callCount' = callCount
       /\ pendingCallbacks' = pendingCallbacks
       /\ timers' = timers
       /\ posted' = <<>>]_vars

\* a cancel after earlier calls, without a handle, whose connection attempt
\* fails
C15_Witness ==
  /\ task = "cancelDownload"
  /\ nativePort = 0
  /\ attempts = 1
  /\ posted = <<>>
  /\ Len(settled) = 1
  /\ settled[1].error = ConnectError
  /\ messageId >= 1

\* C16: every call that is sent takes the counter's next value, the counter
\* never decreases, no two calls have the same id, and the ids in
\* pendingCallbacks are at most the counter.
C16_FreshIds ==
  [][/\ messageId' >= messageId
     /\ \A n \in DOMAIN posted' :
          posted'[n].id = messageId' /\ messageId' = messageId + 1
     /\ \A i \in (DOMAIN pendingCallbacks') \ DOMAIN pendingCallbacks :
          i > messageId
     /\ \A i \in DOMAIN pendingCallbacks' : i >= 1 /\ i <= messageId'
     /\ \A c, d \in DOMAIN callInfo' : callInfo'[c].id = callInfo'[d].id => c = d
     /\ \A c \in DOMAIN callInfo' : callInfo'[c].id <= messageId']_vars

\* a call sent on the second port while a call of the first port's time has
\* its timer still armed
C16_Witness ==
  /\ Len(ports) = 2
  /\ nativePort = 2
  /\ messageId = 2
  /\ Len(posted) = 1
  /\ posted[1].id = 2
  /\ posted[1].ok
  /\ attempts = 1

\* C17: after every task at most one port is open, an open port is the
\* handle's port, the handle's port is the port created last, and when a
\* port is created no older port is left open.
C17_OneLiveConnection ==
  [][/\ Cardinality({p \in DOMAIN ports' : ports'[p] = "open"}) <= 1
     /\ \A p \in DOMAIN ports' : ports'[p] = "open" => nativePort' = p
     /\ nativePort' # 0 => nativePort' = Len(ports')
     /\ Len(ports') > Len(ports) =>
          /\ nativePort' = Len(ports')
          /\ \A p \in DOMAIN ports : ports'[p] # "open"]_vars

\* a second port was created after the first one was lost
C17_Witness ==
  /\ Len(ports) = 2
  /\ ports[1] = "closed"
  /\ ports[2] = "open"
  /\ nativePort = 2

\* C18: between tasks, when nativePort is null, pendingCallbacks and
\* downloadCallbacks are empty.
C18_NoHandleNoWork ==
  nativePort = 0 => pendingCallbacks = <<>> /\ downloadCallbacks = {}

\* handleStartDownload has run after the port was lost and could not be
\* created again
C18_Witness ==
  /\ task = "startDownload"
  /\ nativePort = 0
  /\ Len(ports) >= 1
  /\ attempts = 1
  /\ nextJob >= 1
  /\ downloadCallbacks = {}

\* C19: a disconnect leaves nativePort null; the disconnect listener, the
\* timers, the keep-alive interval and the worker's messages never call
\* connectNative; a task that sends calls it once if there is no handle and
\* not at all otherwise, and writes only with a handle.
C19_LazyReconnect ==
  [][/\ task' = "disconnect" => nativePort' = 0
     /\ task' \notin Senders =>
          /\ attempts' = 0
          /\ Len(ports') = Len(ports)
          /\ nativePort' \in {nativePort, 0}
     /\ task' \in Senders =>
          /\ attempts' = (IF nativePort = 0 THEN 1 ELSE 0)
          /\ Len(ports') <= Len(ports) + attempts'
          /\ posted' # <<>> => nativePort' # 0]_vars

\* the first operation after a disconnect has connected and written
C19_Witness ==
  /\ task \in Senders
  /\ attempts = 1
  /\ Len(ports) = 2
  /\ ports[1] = "closed"
  /\ Len(posted) = 1
  /\ posted[1].ok

\* C20: a message whose id is in pendingCallbacks gives no notification and
\* leaves downloadCallbacks as it was.
C20_MatchedTouchesNoJob ==
  [][(task' = "nativeMessage" /\ settled' # <<>>) =>
       /\ notified' = <<>>
       /\ downloadCallbacks' = downloadCallbacks]_vars

\* C20 as the code has it: a message whose id is in pendingCallbacks is not
\* handled as a job event, also when it carries type and downloadId; what
\* follows is the reaction of the call it settled: a rejected 'download'
\* call gives an error notification for the call's download and removes it,
\* a resolved 'cancel' call removes the call's download.
C20_MatchedIsNoJobEvent ==
  [][(task' = "nativeMessage" /\ settled' # <<>>) =>
       /\ Len(settled') = 1
       /\ \A n \in DOMAIN notified' :
            /\ notified'[n].via = "catch"
            /\ notified'[n].downloadId = settled'[1].downloadId
            /\ settled'[1].action = "download"
            /\ settled'[1].outcome = "rejected"
       /\ downloadCallbacks' \subseteq downloadCallbacks
       /\ \A j \in downloadCallbacks \ downloadCallbacks' :
            /\ j = settled'[1].downloadId
            /\ \/ settled'[1].action = "download" /\ settled'[1].outcome = "rejected"
               \/ settled'[1].action = "cancel" /\ settled'[1].outcome = "resolved"]_vars

\* a message with the id of a pending call and a complete event of an
\* active download: the call is settled, the download stays active and
\* nothing is notified
C20_Witness ==
  /\ task = "nativeMessage"
  /\ Len(settled) = 1
  /\ settled[1].by = settled[1].id
  /\ inbound.type = "complete"
  /\ inbound.downloadId \in downloadCallbacks
  /\ notified = <<>>

\* C21: a settled call has no entry in pendingCallbacks, and a message with
\* the id of a call that is no longer pending settles nothing, changes
\* neither table and gives no notification.
C21_LateMessageDiscarded ==
  [][/\ \A c \in DOMAIN callInfo' :
          callInfo'[c].settled => callInfo'[c].id \notin DOMAIN pendingCallbacks'
     /\ (/\ task' = "nativeMessage"
         /\ inbound'.id # 0
         /\ inbound'.id \notin DOMAIN pendingCallbacks) =>
          /\ settled' = <<>>
          /\ notified' = <<>>
          /\ pendingCallbacks' = pendingCallbacks
          /\ downloadCallbacks' = downloadCallbacks]_vars

\* C22: a message that settles a call rejects it with the message's error
\* text if it has an error field, whatever its value, and resolves it if it
\* has none.
C22_ErrorFieldDecides ==
  \A n \in DOMAIN settled :
    settled[n].by # 0 =>
      /\ settled[n].error # NoField => settled[n].outcome = "rejected"
      /\ settled[n].error = NoField => settled[n].outcome = "resolved"

\* C23: an event for an active download that matched no pending call gives
\* exactly one notification of its kind for that download; a progress event
\* leaves the download active, a complete or error event removes it and
\* nothing else.
C23_ActiveJobEvents ==
  [][\A j \in downloadCallbacks :
       (/\ task' = "nativeMessage"
        /\ settled' = <<>>
        /\ inbound'.downloadId = j
        /\ inbound'.type \in {"progress", "complete", "error"}) =>
         /\ Len(notified') = 1
         /\ notified'[1].kind = inbound'.type
         /\ notified'[1].downloadId = j
         /\ downloadCallbacks' =
              IF inbound'.type = "progress"
              THEN downloadCallbacks ELSE downloadCallbacks \ {j}]_vars

\* a complete event of an active download was handled, after a progress
\* event had left it active
C23_Witness ==
  /\ task = "nativeMessage"
  /\ inbound.type = "complete"
  /\ inbound.downloadId \in 1..nextJob
  /\ inbound.downloadId \notin downloadCallbacks
  /\ Len(notified) = 1
  /\ notified[1].kind = "complete"
  /\ terminated = {inbound.downloadId}
  /\ settled = <<>>

\* C24: the notification of a job event is emitted in the task that handles
\* the event, once, with the event's kind and downloadId; no other task
\* emits the notification of an event, so the notifications of a download
\* are in the order of its events.
C24_EventsInOrder ==
  [][/\ \A n \in DOMAIN notified' :
          notified'[n].via = "event" =>
            /\ task' = "nativeMessage"
            /\ Len(notified') = 1
            /\ notified'[n].kind = inbound'.type
            /\ notified'[n].downloadId = inbound'.downloadId
     /\ (/\ task' = "nativeMessage"
         /\ settled' = <<>>
         /\ inbound'.type \in {"progress", "complete", "error"}
         /\ inbound'.downloadId # 0) =>
          notified' = <<Note(inbound'.type, inbound'.downloadId, "event",
                             IF inbound'.type = "error" THEN "worker error" ELSE NoField)>>]_vars

\* a progress event of the second download was handled while the first
\* download is active too and a call is pending
C24_Witness ==
  /\ task = "nativeMessage"
  /\ inbound.type = "progress"
  /\ inbound.downloadId = 2
  /\ downloadCallbacks = {1, 2}
  /\ Len(notified) = 1
  /\ notified[1].kind = "progress"
  /\ notified[1].downloadId = 2
  /\ pendingCallbacks # <<>>

\* C25: a timer that fires removes at most its own call's entry and rejects
\* at most its own call; it leaves downloadCallbacks, the other entries, the
\* handle, the ports and the counter as they were and notifies nothing.
C25_TimerTouchesOwnCall ==
  [][task' = "timeout" =>
       /\ downloadCallbacks' = downloadCallbacks
       /\ nativePort' = nativePort
       /\ ports' = ports
       /\ messageId' = messageId
       /\ notified' = <<>>
       /\ Len(settled') <= 1
       /\ settled' = <<>> => pendingCallbacks' = pendingCallbacks
       /\ settled' # <<>> =>
            /\ settled'[1].outcome = "rejected"
            /\ settled'[1].error = TimeoutError
            /\ settled'[1].id \in DOMAIN pendingCallbacks
            /\ pendingCallbacks[settled'[1].id] = settled'[1].call
            /\ pendingCallbacks' = MapDelete(pendingCallbacks, settled'[1].id)]_vars

\* the timer of one call has rejected it while another call stays pending
\* and a download stays active
C25_Witness ==
  /\ task = "timeout"
  /\ Len(settled) = 1
  /\ settled[1].error = TimeoutError
  /\ pendingCallbacks # <<>>
  /\ downloadCallbacks # {}
  /\ nativePort # 0

\* C26: a disconnect rejects only calls that were in pendingCallbacks and
\* reports only downloads that were in downloadCallbacks or whose 'download'
\* call it rejected (nothing if both tables were empty); only the disconnect
\* listener uses the disconnect texts, and a send after it makes a new
\* connection attempt.
C26_DisconnectFailsOutstandingOnly ==
  [][/\ task' = "disconnect" =>
          /\ \A n \in DOMAIN settled' :
               /\ settled'[n].id \in DOMAIN pendingCallbacks
               /\ pendingCallbacks[settled'[n].id] = settled'[n].call
          /\ \A n \in DOMAIN notified' :
               \/ /\ notified'[n].via = "disconnect"
                  /\ notified'[n].downloadId \in downloadCallbacks
               \/ /\ notified'[n].via = "catch"
                  /\ \E k \in DOMAIN settled' :
                       /\ settled'[k].action = "download"
                       /\ settled'[k].downloadId = notified'[n].downloadId
          /\ (pendingCallbacks = <<>> /\ downloadCallbacks = {}) =>
               (settled' = <<>> /\ notified' = <<>>)
     /\ task' # "disconnect" =>
          /\ \A n \in DOMAIN settled' : settled'[n].error # DisconnectedError
          /\ \A n \in DOMAIN notified' : notified'[n].via # "disconnect"
     /\ (task' \in Senders /\ nativePort = 0) => attempts' = 1]_vars

\* a disconnect was handled with nothing outstanding, after a download had
\* been started and had ended
C26_Witness ==
  /\ task = "disconnect"
  /\ settled = <<>>
  /\ notified = <<>>
  /\ nextJob >= 1
  /\ messageId >= 1

\* C29: when the delivery of a notification to the popup fails, the rejection
\* is swallowed: both tables, the handle, the ports, the counter, the timers
\* and the calls stay as the notifying task left them, no call is settled,
\* no handler returns or throws, nothing is answered and nothing is notified.
C29_DeliveryFailureSwallowed ==
  [][task' = "deliveryFailed" =>
       /\ pendingCallbacks' = pendingCallbacks
       /\ downloadCallbacks' = downloadCallbacks
       /\ nativePort' = nativePort
       /\ ports' = ports
       /\ messageId' = messageId
       /\ timers' = timers
       /\ callInfo' = callInfo
       /\ terminated' = terminated
       /\ settled' = <<>>
       /\ responses' = <<>>
       /\ replies' = <<>>
       /\ notified' = <<>>]_vars

\* the delivery of a message failed while a download is active and a call
\* is pending, after another download had ended
C29_Witness ==
  /\ task = "deliveryFailed"
  /\ downloadCallbacks # {}
  /\ pendingCallbacks # <<>>
  /\ terminated # {}

\* the calls of ci whose handler awaits them
Awaited(ci) == {c \in DOMAIN ci : ~ci[c].settled /\ ci[c].action # "download"}

\* C30: every request is answered exactly once: handleStartDownload, the
\* openPopup case and the default case are answered in the task of the
\* request, a handler that awaits a call is answered in the task that
\* settles the call and not before; a handler that threw is answered with an
\* error carrying the message of the rejection, and a request with an unknown
\* action is answered with the 'Unknown action' error and changes no state.
C30_OneReplyPerRequest ==
  [][/\ Len(replies') =
          Len(responses') + (IF task' \in {"openPopup", "unknownAction"} THEN 1 ELSE 0)
     /\ \A n \in DOMAIN responses' :
          /\ replies'[n].call = responses'[n].call
          /\ replies'[n].action = responses'[n].action
          /\ responses'[n].value # "thrown" => replies'[n].value = responses'[n].value
          /\ responses'[n].value = "thrown" =>
               /\ replies'[n].value = NoField
               /\ \E k \in DOMAIN settled' :
                    /\ settled'[k].call = responses'[n].call
                    /\ settled'[k].outcome = "rejected"
                    /\ replies'[n].error = settled'[k].error
     /\ \A c \in 1..MaxCalls :
          Cardinality({n \in DOMAIN replies' :
                         replies'[n].call = c /\ replies'[n].action # "download"}) =
            IF /\ c \in Awaited(callInfo) \cup ((DOMAIN callInfo') \ DOMAIN callInfo)
                                          \cup ((callCount + 1)..callCount')
               /\ c \notin Awaited(callInfo')
               /\ \E k \in DOMAIN settled' :
                    settled'[k].call = c /\ settled'[k].action # "download"
            THEN 1 ELSE 0
     /\ Cardinality({n \in DOMAIN replies' :
                      replies'[n].call = 0 /\ replies'[n].action # "download"}) =
          IF \/ task' \in {"openPopup", "unknownAction"}
             \/ task' \in Senders \ {"startDownload"} /\ callCount' = callCount
          THEN 1 ELSE 0
     /\ Cardinality({n \in DOMAIN replies' : replies'[n].action = "download"}) =
          IF task' = "startDownload" THEN 1 ELSE 0
     /\ \A n \in DOMAIN replies' :
          replies'[n].action = "download" => replies'[n].value = "downloadId"
     /\ task' = "unknownAction" =>
          /\ replies' = <<[call |-> 0, action |-> "unknown", value |-> NoField,
                           error |-> UnknownAction]>>
          /\ UNCHANGED <<nativePort, ports, pendingCallbacks, downloadCallbacks,
                         messageId, timers, nextJob, callCount, callInfo, terminated>>
          /\ settled' = <<>>
          /\ notified' = <<>>]_vars

\* the worker answered a 'cancel' call with an error: handleCancelDownload
\* threw and the request is answered with the worker's text
C30_Witness ==
  /\ task = "nativeMessage"
  /\ Len(settled) = 1
  /\ settled[1].action = "cancel"
  /\ settled[1].error = "worker error"
  /\ replies = <<[call |-> settled[1].call, action |-> "cancel", value |-> NoField,
                  error |-> "worker error"]>>

\* C27: with two or more downloads active, the popup applies a
\* downloadProgress, downloadComplete or downloadError message (to its view
\* or to its current download id) only when the message's downloadId is the
\* popup's current download id.
C27_OnlyOwnJobEvents ==
  [][(/\ popupTask' = "onMessage"
      /\ Cardinality(downloadCallbacks) >= 2
      /\ applied' # NothingApplied) =>
       applied'.downloadId = state.currentDownloadId]_vars

\* C28: when the callback of a cancelDownload request has run, whether the
\* request succeeded or failed, the popup does not show progressState.
C28_CancelLeavesProgress ==
  [][popupTask' = "cancelDownloadReply" => view' # "progressState"]_vars

\* C31: handleStartDownload registers a download and writes a 'download'
\* message only for a request that has a url and a title; for a request
\* without one of them it generates no identifier, adds nothing to
\* downloadCallbacks, notifies nothing and writes nothing.
C31_StartValidatesRequest ==
  [][\A n \in DOMAIN request' :
       (request'[n].url = NoField \/ request'[n].title = NoField) =>
         /\ nextJob' = nextJob
         /\ downloadCallbacks' = downloadCallbacks
         /\ notified' = <<>>
         /\ posted' = <<>>]_vars

\* the 'started' notifications among notes
StartedNotes(notes) == SelectSeq(notes, LAMBDA n : n.kind = "started")

\* C32: every handleStartDownload emits exactly one 'started' notification,
\* for its new download and before anything else, no other task emits one,
\* and a complete or error notification of a generated download comes after
\* the download's 'started' notification, also when it is the error of a
\* failed connection attempt or write in the same task.
C32_StartedFirst ==
  [][/\ task' = "startDownload" =>
          /\ StartedNotes(notified') = <<notifyStarted(nextJob')>>
          /\ notified'[1] = notifyStarted(nextJob')
          /\ nextJob' = nextJob + 1
     /\ task' # "startDownload" => StartedNotes(notified') = <<>>
     /\ \A n \in DOMAIN notified' :
          (/\ notified'[n].kind \in {"complete", "error"}
           /\ notified'[n].downloadId \in 1..nextJob') =>
            \/ notified'[n].downloadId <= nextJob
            \/ \E k \in 1..(n - 1) : notified'[k] = notifyStarted(notified'[n].downloadId)]_vars

\* handleStartDownload whose write of the 'download' message failed: the
\* 'started' notification and then the error notification of the download
C32_Witness ==
  /\ task = "startDownload"
  /\ Len(settled) = 1
  /\ settled[1].error = PostError
  /\ notified = <<notifyStarted(nextJob),
                  notifyDownloadError(nextJob, PostError, "catch")>>

\* C33: when the timer of a call that was settled before fires, no call is
\* rejected, no entry is removed, and the tables, the handle, the ports and
\* the counter stay as they were; nothing is notified and nothing answered.
C33_SpentTimerInert ==
  [][\A c \in timers :
       (task' = "timeout" /\ c \notin timers' /\ callInfo[c].settled) =>
         /\ settled' = <<>>
         /\ pendingCallbacks' = pendingCallbacks
         /\ downloadCallbacks' = downloadCallbacks
         /\ nativePort' = nativePort
         /\ ports' = ports
         /\ messageId' = messageId
         /\ timers' = timers \ {c}
         /\ notified' = <<>>
         /\ replies' = <<>>]_vars

\* the timer of a call of the first port's time has fired after a reconnect,
\* while a later call is pending
C33_Witness ==
  /\ task = "timeout"
  /\ settled = <<>>
  /\ Len(ports) = 2
  /\ nativePort = 2
  /\ timers = {}
  /\ DOMAIN pendingCallbacks = {2}

\* C34: when postMessage throws, the call is rejected once, with the error
\* thrown, its entry is not in pendingCallbacks, the other entries and
\* downloadCallbacks are as before the send, and the handle is kept: the
\* one there was, or the one the send has just created.
C34_WriteFailureRejectsOnce ==
  [][\A n \in DOMAIN posted' :
       ~posted'[n].ok =>
         /\ Len(settled') = 1
         /\ settled'[1].outcome = "rejected"
         /\ settled'[1].error = PostError
         /\ settled'[1].first
         /\ settled'[1].id = posted'[n].id
         /\ posted'[n].id \notin DOMAIN pendingCallbacks'
         /\ pendingCallbacks' = pendingCallbacks
         /\ downloadCallbacks' = downloadCallbacks
         /\ nativePort' # 0
         /\ nativePort # 0 => (nativePort' = nativePort /\ ports' = ports)]_vars

\* the write of a 'cancel' message failed while another call is pending and
\* a download is active
C34_Witness ==
  /\ task = "cancelDownload"
  /\ Len(posted) = 1
  /\ ~posted[1].ok
  /\ Len(settled) = 1
  /\ settled[1].error = PostError
  /\ pendingCallbacks # <<>>
  /\ downloadCallbacks # {}

\* the pending 'cancel' calls for download j
PendingCancels(j) ==
  {c \in MapValues(pendingCallbacks) :
     callInfo[c].action = "cancel" /\ callInfo[c].downloadId = j}

\* C35: a complete or error event of an active download that is handled
\* while a 'cancel' call for it is pending gives the download's only
\* terminal notification and removes it, and leaves the cancel pending; the
\* response that later resolves a 'cancel' call for a download that is no
\* longer active notifies nothing, leaves downloadCallbacks as it was and
\* is answered with success.
C35_CancelAfterTerminalEvent ==
  [][/\ \A j \in downloadCallbacks :
          (/\ task' = "nativeMessage"
           /\ settled' = <<>>
           /\ inbound'.downloadId = j
           /\ inbound'.type \in {"complete", "error"}
           /\ PendingCancels(j) # {}) =>
            /\ j \notin terminated
            /\ Len(TerminalNotes(notified', j)) = 1
            /\ Len(notified') = 1
            /\ j \notin downloadCallbacks'
            /\ pendingCallbacks' = pendingCallbacks
            /\ replies' = <<>>
     /\ (/\ task' = "nativeMessage"
         /\ Len(settled') = 1
         /\ settled'[1].action = "cancel"
         /\ settled'[1].outcome = "resolved"
         /\ settled'[1].downloadId \notin downloadCallbacks) =>
          /\ notified' = <<>>
          /\ downloadCallbacks' = downloadCallbacks
          /\ replies' = <<[call |-> settled'[1].call, action |-> "cancel",
                           value |-> "success", error |-> NoField]>>]_vars

\* the response to a 'cancel' call has arrived after the complete or error
\* event of its download
C35_Witness ==
  /\ task = "nativeMessage"
  /\ Len(settled) = 1
  /\ settled[1].action = "cancel"
  /\ settled[1].outcome = "resolved"
  /\ settled[1].downloadId \in terminated
  /\ notified = <<>>
  /\ Len(replies) = 1
  /\ replies[1].value = "success"

\* C36: between the popup's tasks, a current download id that is not null
\* names a download that is in downloadCallbacks.
C36_TracksActiveJob ==
  state.currentDownloadId # 0 => state.currentDownloadId \in downloadCallbacks

\* the startDownload requests of the popup that are not answered
StartsInFlight(reqs) == {n \in DOMAIN reqs : reqs[n].action = "startDownload"}

\* C37: at most one startDownload request of the popup is unanswered; a
\* startDownload that finds isDownloading true or no video info changes
\* nothing; isDownloading is true only while the request is unanswered and
\* is false when the request's callback has run, with or without an error.
C37_OneStartInFlight ==
  [][/\ Cardinality(StartsInFlight(awaiting')) <= 1
     /\ (popupTask' = "startDownload"
         /\ (state.isDownloading \/ ~state.currentVideoInfo)) =>
          UNCHANGED <<view, state, awaiting>>
     /\ popupTask' = "startDownloadReply" => ~state'.isDownloading
     /\ state'.isDownloading <=> StartsInFlight(awaiting') # {}]_vars

\* the retry button was clicked while the request of the running
\* startDownload was unanswered, and nothing was sent
C37_Witness ==
  /\ popupTask = "startDownload"
  /\ view = "errorState"
  /\ state.isDownloading
  /\ Len(awaiting) = 1
  /\ awaiting[1].action = "startDownload"

\* C38: after every addToHistory the stored history has at most 50 entries
\* with the newer entries before the older ones, an entry that the call
\* stored is the first one, and the call drops no entry that was among the
\* first 49: only entries beyond the 50 newest are dropped.
C38_HistoryKeepsNewest ==
  [][added' = added + 1 =>
       /\ Len(downloadHistory') <= HistoryLimit
       /\ \A i, k \in DOMAIN downloadHistory' :
            i < k => downloadHistory'[i] > downloadHistory'[k]
       /\ downloadHistory' # downloadHistory => Head(downloadHistory') = added'
       /\ \A i \in DOMAIN downloadHistory :
            i < HistoryLimit =>
              \E k \in DOMAIN downloadHistory' : downloadHistory'[k] = downloadHistory[i]]_vars

====
